---- MODULE Spec2Model ----
(***************************************************************************)
(* A model of Frontend/src/components/chatbot.tsx: the conversation        *)
(* controller of the Chatbot component (its React state, the effect that   *)
(* fetches the opening message, the send handler and the completions of    *)
(* the interview-service requests), the email harvest, the product-name    *)
(* resolution and the line scan of renderMessageContent.                   *)
(*                                                                         *)
(* A JavaScript string is a sequence of pieces, each piece a one-character *)
(* string or an unbroken chunk of non-whitespace text; the whitespace      *)
(* pieces are those of WS.                                                 *)
(***************************************************************************)
EXTENDS Integers, Sequences, FiniteSets, TLC

VARIABLES
    \* ---- Chatbot component state (chatbot.tsx 48-50) and its environment
    mounted,        \* the mount effect has run
    analysisData,   \* identity of the analysisData prop
    messages,       \* useState<Message[]>([])
    input,          \* useState('')
    isLoading,      \* useState(true)
    inflight,       \* interviewStartup calls that have not settled yet
    nextId,         \* number of the next request (issue order)
    origin,         \* history: origin[i] is the record messages[i] was produced under
    applied,        \* history: the requests whose completion was applied, in order
    escaped,        \* history: an error left getInitialBotMessage / handleSendMessage
    lastEvent,      \* history: the handler that ran last, with what it saw
    \* ---- founderEmails (chatbot.tsx 121-157)
    hData, hPc, hSeen, hOrdered,
    \* ---- productName (chatbot.tsx 85-107)
    nData, nRaw, nMemo, nPc, nResult,
    \* ---- renderMessageContent (chatbot.tsx 201-241)
    fText, fPc, fLines, fIdx, fNodes, fBuffer

ctlVars == <<mounted, analysisData, messages, input, isLoading, inflight, nextId,
             origin, applied, escaped, lastEvent>>
harvestVars == <<hData, hPc, hSeen, hOrdered>>
nameVars == <<nData, nRaw, nMemo, nPc, nResult>>
formatVars == <<fText, fPc, fLines, fIdx, fNodes, fBuffer>>
vars == <<ctlVars, harvestVars, nameVars, formatVars>>
\* The pure computations do not move while the controller does.
CtlFrame == UNCHANGED <<harvestVars, nameVars, formatVars>>

(***************************************************************************)
(* Strings                                                                 *)
(***************************************************************************)
\* The characters String.prototype.trim and the regex class \s remove.
WS == {" ", "\t", "\n", "\r"}

RECURSIVE TrimStart(_)
TrimStart(s) ==
    IF s # <<>> /\ Head(s) \in WS THEN TrimStart(Tail(s)) ELSE s

RECURSIVE TrimEnd(_)
TrimEnd(s) ==
    IF s # <<>> /\ s[Len(s)] \in WS THEN TrimEnd(SubSeq(s, 1, Len(s) - 1)) ELSE s

\* String.prototype.trim
Trim(s) == TrimEnd(TrimStart(s))

(***************************************************************************)
(* The conversation controller                                             *)
(***************************************************************************)
\* Total number of interview-service requests issued in a run.
MaxRequests == 4
\* Number of distinct analysisData identities the component is given.
MaxRecords == 3

StartApology ==
    <<"Sorry, I am having trouble starting the conversation. Please try refreshing.">>
SendApology == <<"Sorry, something went wrong. Please try again.">>

\* What the user can have in the input box.
UserTexts == { <<>>, <<" ", " ">>, <<"What is your traction?">>, <<" ", "q2">> }
\* What the interview service can answer.
Replies == { <<"Good traction.">>, <<"r2">> }

\* type Message = { role, content }
Message(role, content) == [role |-> role, content |-> content]

NoReq == [id |-> 0, kind |-> "none", rec |-> 0, history |-> <<>>]
\* kind: the handler; req: the request it issued or settled; ok: the send was
\* accepted / the request succeeded; text: the service's answer; prev: messages
\* as the handler found it.
Event(kind, req, ok, text, prev) ==
    [kind |-> kind, req |-> req, ok |-> ok, text |-> text, prev |-> prev]

CtlInit ==
    /\ mounted = FALSE
    /\ analysisData = 1
    /\ messages = <<>>
    /\ input = <<>>
    /\ isLoading = TRUE
    /\ inflight = {}
    /\ nextId = 1
    /\ origin = <<>>
    /\ applied = <<>>
    /\ escaped = FALSE
    /\ lastEvent = Event("init", NoReq, TRUE, <<>>, <<>>)

\* getInitialBotMessage up to its await: setIsLoading(true) and the call of
\* interviewStartup with an empty history. messages is not touched here.
getInitialBotMessage(rec) ==
    /\ nextId <= MaxRequests
    /\ isLoading' = TRUE
    /\ inflight' = inflight \cup
           {[id |-> nextId, kind |-> "start", rec |-> rec, history |-> <<>>]}
    /\ nextId' = nextId + 1
    /\ UNCHANGED <<messages, origin, input, applied, escaped>>

\* useEffect(() => { getInitialBotMessage() }, [analysisData]) on mount.
Mount ==
    /\ ~mounted
    /\ mounted' = TRUE
    /\ getInitialBotMessage(analysisData)
    /\ lastEvent' = Event("mount", NoReq, TRUE, <<>>, <<>>)
    /\ UNCHANGED analysisData
    /\ CtlFrame

\* The parent passes another analysisData: the effect runs again.
RecordChange ==
    /\ mounted
    /\ analysisData < MaxRecords
    /\ analysisData' = analysisData + 1
    /\ getInitialBotMessage(analysisData + 1)
    /\ lastEvent' = Event("record", NoReq, TRUE, <<>>, messages)
    /\ UNCHANGED mounted
    /\ CtlFrame

\* <Input onChange={e => setInput(e.target.value)} disabled={isLoading}>
TypeInput(t) ==
    /\ mounted
    /\ ~isLoading
    /\ input' = t
    /\ lastEvent' = Event("type", NoReq, TRUE, <<>>, <<>>)
    /\ UNCHANGED <<mounted, analysisData, messages, isLoading, inflight, nextId,
                   origin, applied, escaped>>
    /\ CtlFrame

TypeSomething == \E t \in UserTexts : TypeInput(t)

\* <Button onClick={handleSendMessage} disabled={isLoading || !input.trim()}>
SendDisabled == isLoading \/ Trim(input) = <<>>

\* The key handler without its !isLoading test.
EnterAllowedAlways == TRUE

\* onKeyDown={(e) => e.key === 'Enter' && !isLoading && handleSendMessage()}
EnterAllowed == ~isLoading

\* if (!input.trim()) return;
InputIsBlank == Trim(input) = <<>>

\* A click or key press that runs no state update.
Ignored(kind) ==
    /\ lastEvent' = Event(kind, NoReq, FALSE, <<>>, messages)
    /\ UNCHANGED <<mounted, analysisData, messages, input, isLoading, inflight,
                   nextId, origin, applied, escaped>>

\* const newMessages = [...messages, userMessage]
NewMessages(prev, userMessage) == Append(prev, userMessage)

\* handleSendMessage up to its await.
handleSendMessage(kind) ==
    IF InputIsBlank
    THEN Ignored(kind)
    ELSE LET userMessage == Message("user", input)
             newMessages == NewMessages(messages, userMessage)
             req == [id |-> nextId, kind |-> "send", rec |-> analysisData,
                     history |-> newMessages]
         IN /\ nextId <= MaxRequests
            /\ messages' = newMessages
            /\ origin' = Append(origin, analysisData)
            /\ input' = <<>>
            /\ isLoading' = TRUE
            /\ inflight' = inflight \cup {req}
            /\ nextId' = nextId + 1
            /\ lastEvent' = Event(kind, req, TRUE, <<>>, messages)
            /\ UNCHANGED <<mounted, analysisData, applied, escaped>>

\* A click on the send button: a disabled button runs no handler.
ButtonClick ==
    /\ mounted
    /\ IF SendDisabled THEN Ignored("click") ELSE handleSendMessage("click")
    /\ CtlFrame

\* The Enter key in the input box. The handler is run whatever isLoading is:
\* that the input element is disabled while loading (line 351) is not relied on.
EnterKey ==
    /\ mounted
    /\ IF EnterAllowed THEN handleSendMessage("enter") ELSE Ignored("enter")
    /\ CtlFrame

\* try { ... } catch (e) { ... }: the catch clauses take every rejection.
StartCatches == TRUE
SendCatches == TRUE

\* The opening message appended to the history instead of replacing it.
StartMessagesAppended(prev, msg) == Append(prev, msg)

\* setMessages([{ role: 'model', content: ... }]) of getInitialBotMessage
StartMessages(prev, msg) == <<msg>>

\* setMessages(prevMessages => [...prevMessages, { role: 'model', ... }])
SendMessages(prev, msg) == Append(prev, msg)

\* finally { setIsLoading(false) }
LoadingAfterSettle == FALSE

\* The request of a getInitialBotMessage call settles.
StartSettles(r, ok, text) ==
    /\ r \in inflight
    /\ r.kind = "start"
    /\ LET msg == Message("model", IF ok THEN text ELSE StartApology)
       IN /\ messages' = StartMessages(messages, msg)
          /\ origin' = <<r.rec>>
    /\ isLoading' = LoadingAfterSettle
    /\ inflight' = inflight \ {r}
    /\ applied' = Append(applied, r.id)
    /\ escaped' = (escaped \/ (~ok /\ ~StartCatches))
    /\ lastEvent' = Event("startDone", r, ok, text, messages)
    /\ UNCHANGED <<mounted, analysisData, input, nextId>>

StartSucceeds ==
    /\ \E r \in inflight, text \in Replies : StartSettles(r, TRUE, text)
    /\ CtlFrame
StartFails ==
    /\ \E r \in inflight : StartSettles(r, FALSE, <<>>)
    /\ CtlFrame

\* The request of a handleSendMessage call settles.
SendSettles(r, ok, text) ==
    /\ r \in inflight
    /\ r.kind = "send"
    /\ LET msg == Message("model", IF ok THEN text ELSE SendApology)
       IN /\ messages' = SendMessages(messages, msg)
          /\ origin' = Append(origin, r.rec)
    /\ isLoading' = LoadingAfterSettle
    /\ inflight' = inflight \ {r}
    /\ applied' = Append(applied, r.id)
    /\ escaped' = (escaped \/ (~ok /\ ~SendCatches))
    /\ lastEvent' = Event("sendDone", r, ok, text, messages)
    /\ UNCHANGED <<mounted, analysisData, input, nextId>>

SendSucceeds ==
    /\ \E r \in inflight, text \in Replies : SendSettles(r, TRUE, text)
    /\ CtlFrame
SendFails ==
    /\ \E r \in inflight : SendSettles(r, FALSE, <<>>)
    /\ CtlFrame

CtlNext ==
    \/ Mount
    \/ RecordChange
    \/ TypeSomething
    \/ ButtonClick
    \/ EnterKey
    \/ StartSucceeds
    \/ StartFails
    \/ SendSucceeds
    \/ SendFails

\* The pure computations at rest, while the controller runs.
HarvestIdle ==
    /\ hData = <<>>
    /\ hPc = "idle"
    /\ hSeen = {}
    /\ hOrdered = <<>>
NameIdle ==
    /\ nData = <<>>
    /\ nRaw = <<>>
    /\ nMemo = <<>>
    /\ nPc = "idle"
    /\ nResult = <<>>
FormatIdle ==
    /\ fText = <<>>
    /\ fPc = "idle"
    /\ fLines = <<>>
    /\ fIdx = 0
    /\ fNodes = <<>>
    /\ fBuffer = <<>>

Init == CtlInit /\ HarvestIdle /\ NameIdle /\ FormatIdle
Next == CtlNext
Spec == Init /\ [][Next]_vars

(***************************************************************************)
(* Claims about the conversation controller                                *)
(***************************************************************************)
SendAttempted == lastEvent.kind \in {"click", "enter"}

\* C1: in every reachable state at most one interview-service request is in
\* flight, for any interleaving of mount, sends, record changes and
\* completions.
C1_AtMostOneInFlight == Cardinality(inflight) <= 1

\* C2: a send (button click or Enter key) made while the input trims to empty
\* or while isAwaitingReply (isLoading) is true is a no-op: it issues no
\* request and leaves history, pendingInput and isAwaitingReply unchanged.
C2_BlockedSendIsNoOp ==
    [][ (lastEvent'.kind \in {"click", "enter"} /\ (Trim(input) = <<>> \/ isLoading))
        => /\ messages' = messages
           /\ input' = input
           /\ isLoading' = isLoading
           /\ inflight' = inflight
           /\ nextId' = nextId ]_vars

\* A send was attempted with a question typed while a request was in flight.
C2_Witness ==
    /\ SendAttempted
    /\ ~lastEvent.ok
    /\ isLoading
    /\ inflight # {}
    /\ Trim(input) # <<>>

\* C3: when the request issued by start settles, history is exactly one model
\* message, the returned text on success and the fixed apology on failure;
\* isAwaitingReply is false and no error has escaped the controller.
C3_StartSettled ==
    lastEvent.kind = "startDone"
    => /\ messages = << Message("model", IF lastEvent.ok THEN lastEvent.text
                                                          ELSE StartApology) >>
       /\ ~isLoading
       /\ ~escaped

\* A start request failed after a record change, with an earlier conversation
\* on screen.
C3_Witness ==
    /\ lastEvent.kind = "startDone"
    /\ ~lastEvent.ok
    /\ Len(lastEvent.prev) >= 2
    /\ lastEvent.req.rec > 1

\* C4: an accepted send issued with history H appends the user message and
\* clears pendingInput at once, its request carries exactly H + [user], and
\* when the request settles history is H + [user, model] (the reply on
\* success, the fixed fallback on failure) with isAwaitingReply false.
C4_SendRoundTrip ==
    /\ (SendAttempted /\ lastEvent.ok)
       => /\ lastEvent.req.history =
                 Append(lastEvent.prev,
                        lastEvent.req.history[Len(lastEvent.req.history)])
          /\ lastEvent.req.history[Len(lastEvent.req.history)].role = "user"
          /\ messages = lastEvent.req.history
          /\ input = <<>>
    /\ lastEvent.kind = "sendDone"
       => /\ messages =
                 Append(lastEvent.req.history,
                        Message("model", IF lastEvent.ok THEN lastEvent.text
                                                          ELSE SendApology))
          /\ ~isLoading

\* C5: once the analysis record has changed, history holds no message
\* produced under an earlier record, and while the new record's start request
\* is in flight the controller is Initializing: history empty and
\* isAwaitingReply true.
C5_ScopedToRecord ==
    /\ \A i \in DOMAIN origin : origin[i] = analysisData
    /\ (\E r \in inflight : r.kind = "start" /\ r.rec = analysisData)
       => (messages = <<>> /\ isLoading)

\* C6: whenever a request is in flight isAwaitingReply is true, and it is true
\* from mount until the first reply or fallback has been applied.
C6_AwaitingWhileInFlight ==
    /\ inflight # {} => isLoading
    /\ applied = <<>> => isLoading

\* C7: replies take effect on history in the order their requests were issued.
C7_RepliesInIssueOrder ==
    \A i, j \in DOMAIN applied : i < j => applied[i] < applied[j]

(***************************************************************************)
(* founderEmails: EMAIL_REGEX, collectEmails and the harvest               *)
(*                                                                         *)
(* A JavaScript value is [t |-> its kind, v |-> its content]: a string     *)
(* holds its characters, an array its items, an object its values in the   *)
(* order Object.values enumerates them.                                    *)
(***************************************************************************)
LowerSeq == << "a", "b", "c", "d", "e", "f", "g", "h", "i", "j", "k", "l", "m",
               "n", "o", "p", "q", "r", "s", "t", "u", "v", "w", "x", "y", "z" >>
UpperSeq == << "A", "B", "C", "D", "E", "F", "G", "H", "I", "J", "K", "L", "M",
               "N", "O", "P", "Q", "R", "S", "T", "U", "V", "W", "X", "Y", "Z" >>
Range(f) == { f[i] : i \in DOMAIN f }
Letters == Range(LowerSeq) \cup Range(UpperSeq)
Digits == { "0", "1", "2", "3", "4", "5", "6", "7", "8", "9" }
\* [A-Z0-9._%+-] under the i flag
LocalChars == Letters \cup Digits \cup { ".", "_", "%", "+", "-" }
\* [A-Z0-9.-] under the i flag
DomainChars == Letters \cup Digits \cup { ".", "-" }

ToLowerChar(c) ==
    IF c \in Range(UpperSeq)
    THEN LowerSeq[CHOOSE i \in DOMAIN UpperSeq : UpperSeq[i] = c]
    ELSE c

\* String.prototype.toLowerCase
RECURSIVE ToLowerCase(_)
ToLowerCase(s) ==
    IF s = <<>> THEN <<>> ELSE <<ToLowerChar(Head(s))>> \o ToLowerCase(Tail(s))

\* The last index of the run of characters of class that starts at i
\* (i - 1 when s[i] is not of the class).
RECURSIVE RunEnd(_, _, _)
RunEnd(s, i, class) ==
    IF i <= Len(s) /\ s[i] \in class THEN RunEnd(s, i + 1, class) ELSE i - 1

\* The index where a match of EMAIL_REGEX that starts at i ends, 0 when none
\* starts there: the local part is the whole run up to an "@"; the domain
\* part is taken as long as a dot and two letters still follow it; the last
\* part takes every letter that follows.
MatchAt(s, i) ==
    LET le == RunEnd(s, i, LocalChars)
        at == le + 1
        de == RunEnd(s, at + 1, DomainChars)
        dots == { d \in (at + 1)..de :
                    /\ d + 3 <= Len(s)
                    /\ s[d + 1] = "."
                    /\ s[d + 2] \in Letters
                    /\ s[d + 3] \in Letters }
        d == CHOOSE x \in dots : \A y \in dots : y <= x
    IN IF le >= i /\ at <= Len(s) /\ s[at] = "@" /\ dots # {}
       THEN RunEnd(s, d + 2, Letters)
       ELSE 0

\* value.match(EMAIL_REGEX): every match, left to right, none overlapping.
RECURSIVE MatchesFrom(_, _)
MatchesFrom(s, i) ==
    IF i > Len(s) THEN <<>>
    ELSE LET e == MatchAt(s, i)
         IN IF e > 0 THEN <<SubSeq(s, i, e)>> \o MatchesFrom(s, e + 1)
            ELSE MatchesFrom(s, i + 1)

Matches(s) == MatchesFrom(s, 1)

Undefined == [t |-> "undefined", v |-> <<>>]
Str(chars) == [t |-> "str", v |-> chars]
Num(digits) == [t |-> "num", v |-> digits]
Arr(items) == [t |-> "arr", v |-> items]
Obj(values) == [t |-> "obj", v |-> values]

\* !value
Falsy(value) ==
    \/ value.t \in {"undefined", "null"}
    \/ value.t = "str" /\ value.v = <<>>
    \/ value.t = "num" /\ value.v = <<"0">>

\* The matches of a string that are handed to push, each trimmed.
RECURSIVE PushedOf(_)
PushedOf(matches) ==
    IF matches = <<>> THEN <<>>
    ELSE (IF Trim(Head(matches)) # <<>> THEN <<Trim(Head(matches))>> ELSE <<>>)
         \o PushedOf(Tail(matches))

\* collectEmails(value, push): the arguments of its calls of push, in order.
RECURSIVE collectEmails(_)
RECURSIVE collectEach(_)
collectEach(items) ==
    IF items = <<>> THEN <<>>
    ELSE collectEmails(Head(items)) \o collectEach(Tail(items))
collectEmails(value) ==
    IF Falsy(value) THEN <<>>
    ELSE IF value.t = "str" THEN PushedOf(Matches(value.v))
    ELSE IF value.t \in {"arr", "obj"} THEN collectEach(value.v)
    ELSE <<>>

\* The key compared case-sensitively.
PushKeyExact(trimmed) == trimmed

\* const key = trimmed.toLowerCase()
PushKey(trimmed) == ToLowerCase(trimmed)

\* push(email) on the pair of seen and ordered
push(acc, email) ==
    LET trimmed == Trim(email)
        key == PushKey(trimmed)
    IN IF trimmed = <<>> \/ key \in acc.seen
       THEN acc
       ELSE [seen |-> acc.seen \cup {key}, ordered |-> Append(acc.ordered, trimmed)]

RECURSIVE pushAll(_, _)
pushAll(acc, emails) ==
    IF emails = <<>> THEN acc ELSE pushAll(push(acc, Head(emails)), Tail(emails))

\* The addresses and texts the model's records are built from.
AtX == << "a", "@", "x", ".", "c", "o", "m" >>
AtXUpper == << "A", "@", "X", ".", "c", "o", "m" >>
AtXMixed == << "a", "@", "X", ".", "C", "o", "m" >>
AtY == << "b", "@", "y", ".", "i", "o" >>
AtYUpper == << "B", "@", "Y", ".", "I", "O" >>
AtZ == << "c", ".", "d", "@", "z", ".", "c", "o", ".", "u", "k" >>
NoTld == << "a", "@", "x", ".", "c" >>
Sep == << ",", " " >>

FounderEmailValues ==
    { Undefined,
      Str(AtX),
      Str(AtY \o Sep \o AtXUpper),
      Arr(<< Str(AtXUpper), Str(AtY) >>) }
ContactEmailValues ==
    { Undefined, Str(<<>>), Str(AtXUpper), Str(AtYUpper), Str(NoTld), Num(<<"7">>) }
FounderContactsValues ==
    { Undefined,
      Arr(<< Obj(<< Str(<<"B", "o">>), Str(AtYUpper) >>),
             Obj(<< Str(<<"A", "l">>), Str(AtXMixed) >>) >>),
      Obj(<< Str(<<"<">> \o AtZ \o <<">", " ">> \o AtX \o <<".">>) >>) }
FoundersValues ==
    { Undefined,
      Arr(<< Str(<<"A", "n", "n", " ", "<">> \o AtXMixed \o <<">">>), Str(AtY) >>),
      Str(AtZ \o AtX) }
PublicDataValues ==
    { Obj(<<>>),
      Obj(<< Num(<<"0">>), Arr(<< Str(AtYUpper), Str(AtZ) >>), Str(AtX) >>) }

\* The part of analysisData the harvest reads. memo.draft_v1 is an object
\* whose only value is company_overview, with the values name and founders.
HarvestInputs ==
    [ hasMetadata : BOOLEAN,
      founder_emails : FounderEmailValues,
      contact_email : ContactEmailValues,
      founder_contacts : FounderContactsValues,
      hasMemo : BOOLEAN,
      founders : FoundersValues,
      publicData : PublicDataValues ]

\* analysisData.memo?.draft_v1?.company_overview?.founders
FoundersOf(d) == IF d.hasMemo THEN d.founders ELSE Undefined

\* analysisData.memo?.draft_v1
DraftOf(d) ==
    IF d.hasMemo
    THEN Obj(<< Obj(<< Str(<<"A", "c", "m", "e">>) >>
                    \o (IF d.founders = Undefined THEN <<>> ELSE <<d.founders>>)) >>)
    ELSE Undefined

\* The arguments of the harvest calls of lines 146-154, in order.
MetadataCalls(d) ==
    IF d.hasMetadata
    THEN << d.founder_emails, d.contact_email, d.founder_contacts >>
    ELSE <<>>
MemoCalls(d) == << FoundersOf(d), DraftOf(d) >>
PublicCalls(d) == << d.publicData >>

\* harvest(value) for each value of calls
RECURSIVE harvestEach(_, _)
harvestEach(acc, calls) ==
    IF calls = <<>> THEN acc
    ELSE harvestEach(pushAll(acc, collectEmails(Head(calls))), Tail(calls))

HarvestInit ==
    /\ hData \in HarvestInputs
    /\ hPc = "metadata"
    /\ hSeen = {}
    /\ hOrdered = <<>>

HarvestStep(calls, next) ==
    LET acc == harvestEach([seen |-> hSeen, ordered |-> hOrdered], calls)
    IN /\ hSeen' = acc.seen
       /\ hOrdered' = acc.ordered
       /\ hPc' = next
       /\ UNCHANGED <<hData, ctlVars, nameVars, formatVars>>

\* if (metadata) { harvest(founder_emails); harvest(contact_email); ... }
HarvestMetadata == hPc = "metadata" /\ HarvestStep(MetadataCalls(hData), "memo")
\* harvest(...founders); harvest(analysisData.memo?.draft_v1)
HarvestMemo == hPc = "memo" /\ HarvestStep(MemoCalls(hData), "public")
\* harvest(publicData); return ordered
HarvestPublicData == hPc = "public" /\ HarvestStep(PublicCalls(hData), "done")

InitHarvest == HarvestInit /\ CtlInit /\ NameIdle /\ FormatIdle
NextHarvest == HarvestMetadata \/ HarvestMemo \/ HarvestPublicData
SpecHarvest == InitHarvest /\ [][NextHarvest]_vars

(***************************************************************************)
(* Claims about the harvest                                                *)
(***************************************************************************)
\* Every address the harvest has met so far, in traversal order.
HarvestedCalls ==
    CASE hPc = "metadata" -> <<>>
      [] hPc = "memo" -> MetadataCalls(hData)
      [] hPc = "public" -> MetadataCalls(hData) \o MemoCalls(hData)
      [] OTHER -> MetadataCalls(hData) \o MemoCalls(hData) \o PublicCalls(hData)
MatchedSoFar == collectEach(HarvestedCalls)

SameAddress(a, b) == ToLowerCase(a) = ToLowerCase(b)

\* The entries of m that no earlier entry equals case-insensitively.
RECURSIVE FirstOccurrencesFrom(_, _)
FirstOccurrencesFrom(m, i) ==
    IF i > Len(m) THEN <<>>
    ELSE (IF \E j \in 1..(i - 1) : SameAddress(m[j], m[i]) THEN <<>> ELSE <<m[i]>>)
         \o FirstOccurrencesFrom(m, i + 1)

\* C8: the harvested list holds no two entries equal case-insensitively, holds
\* every matched address exactly once, each at the position and in the casing
\* of its first occurrence in traversal order; founder_emails "a@x.com" with
\* contact_email "A@X.com" and nothing else yields exactly ["a@x.com"].
C8_HarvestUniqueFirstSeen ==
    hPc # "idle" =>
    /\ \A i, j \in DOMAIN hOrdered :
           i # j => ~SameAddress(hOrdered[i], hOrdered[j])
    /\ \A k \in DOMAIN MatchedSoFar :
           \E i \in DOMAIN hOrdered : SameAddress(hOrdered[i], MatchedSoFar[k])
    /\ hOrdered = FirstOccurrencesFrom(MatchedSoFar, 1)
    /\ ( /\ hPc = "done"
         /\ hData.hasMetadata
         /\ hData.founder_emails = Str(AtX)
         /\ hData.contact_email = Str(AtXUpper)
         /\ hData.founder_contacts = Undefined
         /\ ~hData.hasMemo
         /\ hData.publicData = Obj(<<>>) )
       => hOrdered = << AtX >>

\* The harvest is over, it met one address in two casings and kept the first,
\* with another address after it.
C8_Witness ==
    /\ hPc = "done"
    /\ Len(hOrdered) >= 2
    /\ \E k \in DOMAIN MatchedSoFar :
           /\ SameAddress(MatchedSoFar[k], hOrdered[1])
           /\ MatchedSoFar[k] # hOrdered[1]

(***************************************************************************)
(* productName: coerce, sanitizeProductName and the candidates             *)
(***************************************************************************)
\* normalized.length > 60
MaxNameLength == 60
\* wordCount > 6
MaxNameWords == 6

\* coerce(value): a string's trimmed text, '' for anything else
coerce(value) == IF value.t = "str" THEN Trim(value.v) ELSE <<>>

\* a || b
OrElse(a, b) == IF a # <<>> THEN a ELSE b

\* replace(/\s+/g, ' '): every run of whitespace becomes one space.
RECURSIVE CollapseWhitespace(_)
CollapseWhitespace(s) ==
    IF s = <<>> THEN <<>>
    ELSE IF Head(s) \in WS
         THEN <<" ">> \o CollapseWhitespace(TrimStart(s))
         ELSE <<Head(s)>> \o CollapseWhitespace(Tail(s))

\* normalized.split(' ').length
SplitCount(s) == Cardinality({ i \in DOMAIN s : s[i] = " " }) + 1

\* sanitizeProductName(value): the normalized name, or undefined
sanitizeProductName(value) ==
    LET trimmed == Trim(value)
        normalized == CollapseWhitespace(trimmed)
        wordCount == SplitCount(normalized)
    IN IF trimmed = <<>> THEN Undefined
       ELSE IF Len(normalized) > MaxNameLength \/ wordCount > MaxNameWords
            THEN Undefined
            ELSE Str(normalized)

\* The metadata product_name field looked at before the names bag.
rawProductNameSwapped(d) == OrElse(coerce(d.product_name), OrElse(coerce(d.product), <<>>))

\* coerce(namesMeta.product) || coerce(metadata?.product_name) || ''
rawProductName(d) == OrElse(coerce(d.product), OrElse(coerce(d.product_name), <<>>))

\* coerce(analysisData.memo?.draft_v1?.company_overview?.technology)
memoProductCandidate(d) == coerce(d.technology)

\* sanitizeProductName(rawProductName) ||
\*   (memoProductCandidate ? sanitizeProductName(memoProductCandidate) : undefined)
productName(raw, memo) ==
    IF sanitizeProductName(raw) # Undefined
    THEN sanitizeProductName(raw)
    ELSE IF memo # <<>> THEN sanitizeProductName(memo) ELSE Undefined

RECURSIVE Repeat(_, _)
Repeat(piece, n) == IF n = 0 THEN <<>> ELSE piece \o Repeat(piece, n - 1)

\* Candidate values: absent, not a string, blank, short names with stray
\* whitespace, six and seven words, sixty and sixty-one characters.
NameValues ==
    { Undefined,
      Num(<<"4", "2">>),
      Str(<<" ", "\t">>),
      Str(<<" ", " ", "A", "c", "m", "e", " ", "\t", "B", "o", "t", "\n">>),
      Str(<<"Z", "e", "n">>),
      Str(<<"a">> \o Repeat(<<" ", "b">>, MaxNameWords - 1)),
      Str(<<"a">> \o Repeat(<<" ", " ", "b">>, MaxNameWords)),
      Str(Repeat(<<"x">>, MaxNameLength)),
      Str(Repeat(<<"x">>, MaxNameLength) \o <<"y">>) }

NameInputs == [ product : NameValues, product_name : NameValues, technology : NameValues ]

NameInit ==
    /\ nData \in NameInputs
    /\ nPc = "raw"
    /\ nRaw = <<>>
    /\ nMemo = <<>>
    /\ nResult = Undefined

NameFrame == UNCHANGED <<nData, ctlVars, harvestVars, formatVars>>

\* const rawProductName = ...
NameRaw ==
    /\ nPc = "raw"
    /\ nRaw' = rawProductName(nData)
    /\ nPc' = "memo"
    /\ UNCHANGED <<nMemo, nResult>>
    /\ NameFrame

\* const memoProductCandidate = ...
NameMemo ==
    /\ nPc = "memo"
    /\ nMemo' = memoProductCandidate(nData)
    /\ nPc' = "product"
    /\ UNCHANGED <<nRaw, nResult>>
    /\ NameFrame

\* const productName = ...
NameProduct ==
    /\ nPc = "product"
    /\ nResult' = productName(nRaw, nMemo)
    /\ nPc' = "done"
    /\ UNCHANGED <<nRaw, nMemo>>
    /\ NameFrame

InitName == NameInit /\ CtlInit /\ HarvestIdle /\ FormatIdle
NextName == NameRaw \/ NameMemo \/ NameProduct
SpecName == InitName /\ [][NextName]_vars

(***************************************************************************)
(* Claims about the product name                                           *)
(***************************************************************************)
\* The words of a text: its maximal runs of non-whitespace characters.
RECURSIVE WordsOf(_)
WordsOf(s) ==
    LET t == TrimStart(s)
        n == CHOOSE k \in 0..Len(t) :
                 /\ \A i \in 1..k : t[i] \notin WS
                 /\ (k < Len(t) => t[k + 1] \in WS)
    IN IF t = <<>> THEN <<>> ELSE <<SubSeq(t, 1, n)>> \o WordsOf(SubSeq(t, n + 1, Len(t)))

RECURSIVE JoinWords(_)
JoinWords(ws) ==
    IF ws = <<>> THEN <<>>
    ELSE IF Len(ws) = 1 THEN ws[1]
    ELSE ws[1] \o <<" ">> \o JoinWords(Tail(ws))

\* A candidate passes sanitization: it is a string, non-empty, of at most 6
\* words and at most 60 characters once its whitespace is collapsed.
Passes(value) ==
    /\ value.t = "str"
    /\ WordsOf(value.v) # <<>>
    /\ Len(WordsOf(value.v)) <= 6
    /\ Len(JoinWords(WordsOf(value.v))) <= 60
Sanitized(value) == Str(JoinWords(WordsOf(value.v)))

NonBlank(value) == value.t = "str" /\ WordsOf(value.v) # <<>>

\* C9 as stated: the product name is the sanitized form of the first of
\* [names-bag product, metadata product_name] that passes sanitization, else
\* the sanitized technology field, else none.
C9_FirstPassingCandidate ==
    nPc = "done" =>
    nResult = IF Passes(nData.product) THEN Sanitized(nData.product)
              ELSE IF Passes(nData.product_name) THEN Sanitized(nData.product_name)
              ELSE IF Passes(nData.technology) THEN Sanitized(nData.technology)
              ELSE Undefined

\* C9 amended: the candidate is the first of [names-bag product, metadata
\* product_name] that is a non-blank string; the product name is its sanitized
\* form if it passes sanitization, else the sanitized technology field if that
\* passes, else none.
C9_FirstNonBlankCandidate ==
    nPc = "done" =>
    LET first == IF NonBlank(nData.product) THEN nData.product
                 ELSE IF NonBlank(nData.product_name) THEN nData.product_name
                 ELSE Undefined
    IN nResult = IF Passes(first) THEN Sanitized(first)
                 ELSE IF Passes(nData.technology) THEN Sanitized(nData.technology)
                 ELSE Undefined

\* The names-bag product is prose that fails sanitization, product_name and
\* technology are good names, and the result is the technology field.
C9_Witness ==
    /\ nPc = "done"
    /\ NonBlank(nData.product)
    /\ ~Passes(nData.product)
    /\ Passes(nData.product_name)
    /\ Passes(nData.technology)
    /\ Sanitized(nData.product_name) # Sanitized(nData.technology)
    /\ nResult = Sanitized(nData.technology)

(***************************************************************************)
(* renderMessageContent: the line scan                                     *)
(*                                                                         *)
(* A node is a paragraph holding the text of its line or a list holding    *)
(* its items; renderInlineSegments, which only styles the text inside a    *)
(* node, is left out.                                                      *)
(***************************************************************************)
\* Longest message text the scan is run on.
MaxTextLen == 5

\* The bullet marker, the one character U+2022.
Bullet == "U+2022"
TextChars == { Bullet, "a", " ", "\n", "\r" }

\* text.split(/\r?\n/), cur being the line read so far
RECURSIVE SplitLinesFrom(_, _)
SplitLinesFrom(s, cur) ==
    IF s = <<>> THEN <<cur>>
    ELSE IF Head(s) = "\n" THEN <<cur>> \o SplitLinesFrom(Tail(s), <<>>)
    ELSE IF Head(s) = "\r" /\ Len(s) >= 2 /\ s[2] = "\n"
         THEN <<cur>> \o SplitLinesFrom(Tail(Tail(s)), <<>>)
    ELSE SplitLinesFrom(Tail(s), Append(cur, Head(s)))

\* .map(line => line.trim()).filter(line => line.length > 0)
RECURSIVE TrimAndFilter(_)
TrimAndFilter(ls) ==
    IF ls = <<>> THEN <<>>
    ELSE (IF Trim(Head(ls)) # <<>> THEN <<Trim(Head(ls))>> ELSE <<>>)
         \o TrimAndFilter(Tail(ls))

LinesOf(text) == TrimAndFilter(SplitLinesFrom(text, <<>>))

Paragraph(line) == [kind |-> "p", text |-> line, items |-> <<>>]
BulletList(items) == [kind |-> "ul", text |-> <<>>, items |-> items]

\* flushList that pushes the list and keeps the buffer.
flushListKeepsBuffer(nodes, listBuffer) ==
    IF listBuffer = <<>>
    THEN [nodes |-> nodes, listBuffer |-> listBuffer]
    ELSE [nodes |-> Append(nodes, BulletList(listBuffer)), listBuffer |-> listBuffer]

\* flushList on the pair of nodes and listBuffer
flushList(nodes, listBuffer) ==
    IF listBuffer = <<>>
    THEN [nodes |-> nodes, listBuffer |-> listBuffer]
    ELSE [nodes |-> Append(nodes, BulletList(listBuffer)), listBuffer |-> <<>>]

\* line.startsWith(BULLET)
IsBulletLine(line) == line # <<>> /\ Head(line) = Bullet

\* The callback of lines.forEach for the line at idx (idx counts from 1).
scanLine(nodes, listBuffer, line, idx, count) ==
    IF IsBulletLine(line)
    THEN LET pushed == Append(listBuffer, Trim(Tail(line)))
         IN IF idx = count
            THEN flushList(nodes, pushed)
            ELSE [nodes |-> nodes, listBuffer |-> pushed]
    ELSE LET flushed == flushList(nodes, listBuffer)
         IN [nodes |-> Append(flushed.nodes, Paragraph(line)),
             listBuffer |-> flushed.listBuffer]

FormatTexts == UNION { [1..n -> TextChars] : n \in 0..MaxTextLen }

FormatInit ==
    /\ fText \in FormatTexts
    /\ fPc = "split"
    /\ fLines = <<>>
    /\ fIdx = 0
    /\ fNodes = <<>>
    /\ fBuffer = <<>>

FormatFrame == UNCHANGED <<fText, ctlVars, harvestVars, nameVars>>

\* const lines = ...; with no line left the text itself is the one paragraph.
FormatSplit ==
    /\ fPc = "split"
    /\ fLines' = LinesOf(fText)
    /\ IF LinesOf(fText) = <<>>
       THEN /\ fNodes' = << Paragraph(fText) >>
            /\ fPc' = "done"
            /\ fIdx' = 0
       ELSE /\ fNodes' = <<>>
            /\ fPc' = "scan"
            /\ fIdx' = 1
    /\ fBuffer' = <<>>
    /\ FormatFrame

\* One turn of lines.forEach
FormatLine ==
    /\ fPc = "scan"
    /\ LET r == scanLine(fNodes, fBuffer, fLines[fIdx], fIdx, Len(fLines))
       IN /\ fNodes' = r.nodes
          /\ fBuffer' = r.listBuffer
    /\ fIdx' = fIdx + 1
    /\ fPc' = IF fIdx = Len(fLines) THEN "flush" ELSE "scan"
    /\ UNCHANGED fLines
    /\ FormatFrame

\* flushList(); return <div>{nodes}</div>
FormatFinalFlush ==
    /\ fPc = "flush"
    /\ LET r == flushList(fNodes, fBuffer)
       IN /\ fNodes' = r.nodes
          /\ fBuffer' = r.listBuffer
    /\ fPc' = "done"
    /\ UNCHANGED <<fLines, fIdx>>
    /\ FormatFrame

InitFormat == FormatInit /\ CtlInit /\ HarvestIdle /\ NameIdle
NextFormat == FormatSplit \/ FormatLine \/ FormatFinalFlush
SpecFormat == InitFormat /\ [][NextFormat]_vars

(***************************************************************************)
(* Claims about the line scan                                              *)
(***************************************************************************)
\* What a line contributes: whether it is a bullet line, and its text (the
\* bullet line's without the marker).
Entry(bullet, text) == [bullet |-> bullet, text |-> text]
EntryOfLine(line) ==
    IF Head(line) = Bullet THEN Entry(TRUE, Trim(Tail(line))) ELSE Entry(FALSE, line)

RECURSIVE EntriesOfLines(_)
EntriesOfLines(ls) ==
    IF ls = <<>> THEN <<>> ELSE <<EntryOfLine(Head(ls))>> \o EntriesOfLines(Tail(ls))

RECURSIVE EntriesOfItems(_)
EntriesOfItems(items) ==
    IF items = <<>> THEN <<>>
    ELSE <<Entry(TRUE, Head(items))>> \o EntriesOfItems(Tail(items))

\* The nodes read back as lines, in order.
RECURSIVE EntriesOfNodes(_)
EntriesOfNodes(nodes) ==
    IF nodes = <<>> THEN <<>>
    ELSE (IF Head(nodes).kind = "ul" THEN EntriesOfItems(Head(nodes).items)
          ELSE <<Entry(FALSE, Head(nodes).text)>>)
         \o EntriesOfNodes(Tail(nodes))

\* C10: for a text with at least one non-empty trimmed line, the nodes read
\* back in order are exactly the lines (bullet lines as items without their
\* marker, the others as paragraphs), no list is empty and no two lists are
\* adjacent: every maximal run of bullet lines is exactly one list, and no
\* line is lost or duplicated.
C10_LineScanBlocks ==
    (fPc = "done" /\ fLines # <<>>) =>
    /\ EntriesOfNodes(fNodes) = EntriesOfLines(fLines)
    /\ \A k \in DOMAIN fNodes : fNodes[k].kind = "ul" => fNodes[k].items # <<>>
    /\ \A k \in 1..(Len(fNodes) - 1) :
           ~(fNodes[k].kind = "ul" /\ fNodes[k + 1].kind = "ul")
    /\ fBuffer = <<>>

\* The text is a bullet run, a plain line and a bullet run that ends it.
C10_Witness ==
    /\ fPc = "done"
    /\ Len(fNodes) = 3
    /\ fNodes[1].kind = "ul"
    /\ fNodes[2].kind = "p"
    /\ fNodes[3].kind = "ul"
====
